---- MODULE Spec2Model ----
(***************************************************************************)
(* spectralhub: the App component (src/src/App.tsx), the                   *)
(* MicrophoneSelector (src/unnamed/part_000) and the AudioSpectrum         *)
(* component (src/src/components/AudioSpectrum.tsx) as one state machine.  *)
(*                                                                         *)
(* The host is single-threaded: every action below is one event-loop task  *)
(* (a promise continuation, a DOM event with the effects React runs for    *)
(* it, an animation-frame callback) run to completion.  The host chooses   *)
(* the order of the tasks, which is what Next leaves open.                 *)
(***************************************************************************)
EXTENDS Integers, Sequences, FiniteSets, TLC

\* ------------------------------------------------------------- bounds
\* User gestures on the <select> control.
MaxSelects == 3
\* Frames that sample (each one appends once and requests one frame).
MaxFrames == 3
\* Bins of a snapshot (frequencyBinCount of the analyser, cut down).
MaxBins == 1
\* Canvas widths tried besides CANVAS_WIDTH: 1..MaxWidth.
MaxWidth == 3
\* Retention windows tried besides HISTORY_DURATION: 1..MaxWindow.
MaxWindow == 3
\* Bins of the snapshot drawLogSpectrum is given: 1..MaxBufferLength.
MaxBufferLength == 2

\* ------------------------------------------------------------- constants
HISTORY_DURATION == 300000
FFT_SIZE == 2048
CANVAS_WIDTH == 800

\* A ref that holds nothing, the initial animationRef, "no attempt".
NULL == 0

\* The empty selection, useState("").
NoDevice == ""

\* The audio inputs the host may report.
Devices == {"micA", "micB"}

\* enumerateDevices() results, in the host's order: no input, one, both.
MicLists == {<<>>, <<"micA">>, <<"micA", "micB">>}

\* What getByteFrequencyData writes, amplitudes in 0..255: one array stands
\* for the readings of one analyser (odd streams loud, even ones silent).
Sample(an) == [i \in 1..MaxBins |-> IF an % 2 = 1 THEN 255 ELSE 0]

\* How far Date.now() has moved since it was last read: by a millisecond, by
\* the whole retention window.
Elapsed == {1, HISTORY_DURATION}

\* How startAudioAnalysis ends once getUserMedia has resolved.
Outcomes == {"ok", "contextThrows", "connectThrows"}

NoFailure == [id |-> NULL, device |-> NoDevice]

Range(s) == {s[i] : i \in 1..Len(s)}

VARIABLES
    \* MicrophoneSelector
    microphones,        \* useState<MediaDeviceInfo[]>([]): the device ids, in order
    isLoading,          \* useState(true)
    error,              \* useState<string | null>(null)
    selPc,              \* where getMicrophones is: its await, or done
    \* App
    selectedMicrophone, \* useState("")
    mounted,            \* the component tree is mounted (canvasRef.current is set)
    \* AudioSpectrum
    streamRef,          \* streamRef.current: the id of the held stream, or NULL
    audioContextRef,    \* audioContextRef.current
    analyserRef,        \* analyserRef.current
    animationRef,       \* animationRef.current: the last handle requested
    spectrumHistory,    \* useState<SpectrumData[]>([])
    isActive,           \* useState(false)
    \* host
    pending,            \* startAudioAnalysis calls suspended at getUserMedia
    liveStreams,        \* streams acquired whose tracks are not stopped
    openContexts,       \* audio contexts created and not closed
    analysers,          \* analyser nodes of the open contexts: their fftSize,
                        \* and whether a stream source is connected to them
    frames,             \* animation-frame callbacks requested and not yet run
    canvas,             \* what the last frame drew
    clock,              \* Date.now() when it was last read
    \* counters and records of what happened
    selects,            \* user gestures so far
    attempts,           \* startAudioAnalysis calls so far (call n acquires stream n)
    rafCount,           \* requestAnimationFrame calls so far (their handles)
    appends,            \* setSpectrumHistory updater calls so far
    failure,            \* the last attempt that reached the catch block
    tornDown,           \* sessions that held a stream or ran a frame loop when
                        \* stopAudioAnalysis ran
    \* coordinate mapping on its own
    mapping             \* the last mapping computed: its inputs and its result

selectorVars == <<microphones, isLoading, error, selPc>>
refVars == <<streamRef, audioContextRef, analyserRef, animationRef>>
controllerVars ==
    <<streamRef, audioContextRef, analyserRef, animationRef, spectrumHistory,
      isActive, pending, liveStreams, openContexts, analysers, frames, canvas,
      attempts, rafCount, appends, failure, tornDown>>
vars ==
    <<microphones, isLoading, error, selPc, selectedMicrophone, mounted,
      streamRef, audioContextRef, analyserRef, animationRef, spectrumHistory,
      isActive, pending, liveStreams, openContexts, analysers, frames, canvas,
      clock, selects, attempts, rafCount, appends, failure, tornDown, mapping>>

BlankCanvas == [spectrum |-> <<>>, iterated |-> <<>>, cells |-> <<>>]

\* No mapping computed.
NoMapping == [fn |-> "none"]

\* The components as mounted, the effect of the empty selection run.
ControllerInit ==
    /\ microphones = <<>>
    /\ isLoading = TRUE
    /\ error = "null"
    /\ selPc = "getUserMedia"
    /\ selectedMicrophone = NoDevice
    /\ mounted = TRUE
    /\ streamRef = NULL
    /\ audioContextRef = NULL
    /\ analyserRef = NULL
    /\ animationRef = NULL
    /\ spectrumHistory = <<>>
    /\ isActive = FALSE
    /\ pending = {}
    /\ liveStreams = {}
    /\ openContexts = {}
    /\ analysers = {}
    /\ frames = {}
    /\ canvas = BlankCanvas
    /\ clock = 0
    /\ selects = 0
    /\ attempts = 0
    /\ rafCount = 0
    /\ appends = 0
    /\ failure = NoFailure
    /\ tornDown = {}

Init == ControllerInit /\ mapping = NoMapping

\* ------------------------------------------------------------- history
\* The filter with < for <=.
RetainedStrictly(data, now) == now - data.timestamp < HISTORY_DURATION

\* data => now - data.timestamp <= HISTORY_DURATION   (the filter's test)
Retained(data, now) == now - data.timestamp <= HISTORY_DURATION

\* [newSpectrumData, ...prev]
Prepended(prev, newSpectrumData) == <<newSpectrumData>> \o prev

\* [...prev, newSpectrumData]
Updated(prev, newSpectrumData) == Append(prev, newSpectrumData)

\* An updater that drops what was there: prev => [newSpectrumData].
UpdaterFresh(prev, newSpectrumData, now) == <<newSpectrumData>>

\* The updater handed to setSpectrumHistory.
Updater(prev, newSpectrumData, now) ==
    SelectSeq(Updated(prev, newSpectrumData), LAMBDA data : Retained(data, now))

\* ------------------------------------------------------------- drawing
\* drawLogSpectrum: draws bars from dataArray unless the context ref is empty.
DrawLogSpectrum(ac, dataArray) == IF ac = NULL THEN <<>> ELSE dataArray

\* drawSpectrogram reads the spectrumHistory of the render whose closure it
\* belongs to (hist): the entries the forEach visits, and those it draws.
SpectrogramIterated(hist) == IF Len(hist) = 0 THEN <<>> ELSE hist

\* The forEach without its age check: every visited entry is drawn.
SpectrogramCellsAll(hist, now) == SpectrogramIterated(hist)

SpectrogramCells(hist, now) ==
    SelectSeq(SpectrogramIterated(hist),
              LAMBDA data : ~(now - data.timestamp > HISTORY_DURATION))

DrawSpectrum(hist, ac, dataArray, now) ==
    [spectrum |-> DrawLogSpectrum(ac, dataArray),
     iterated |-> SpectrogramIterated(hist),
     cells |-> SpectrogramCells(hist, now)]

\* ------------------------------------------------------------- frame loop
\* The first guard of animate: the sampler and the canvas are there.
AnimateReady(an, ctxOk) == an # NULL /\ mounted /\ ctxOk

\* animate, run by the closure of session sess (whose render saw hist), with
\* the refs holding an and ac, fr the callbacks still requested, ctxOk whether
\* getContext('2d') gave a context and dt the time since the clock was last
\* read.
Animate(sess, hist, an, ac, fr, ctxOk, dt) ==
    IF ~AnimateReady(an, ctxOk)
    THEN /\ frames' = fr
         /\ UNCHANGED <<spectrumHistory, canvas, animationRef, rafCount, appends,
                        clock>>
    ELSE /\ appends < MaxFrames
         /\ clock' = clock + dt
         /\ LET dataArray == Sample(an)
                now == clock + dt
                newSpectrumData == [timestamp |-> now, frequencies |-> dataArray]
            IN /\ spectrumHistory' = Updater(spectrumHistory, newSpectrumData, now)
               /\ appends' = appends + 1
               /\ canvas' = DrawSpectrum(hist, ac, dataArray, now)
               /\ rafCount' = rafCount + 1
               /\ animationRef' = rafCount + 1
               /\ frames' = fr \cup {[handle |-> rafCount + 1,
                                       session |-> sess,
                                       hist |-> hist]}

\* An animation-frame callback runs.
Frame(f, ctxOk, dt) ==
    /\ f \in frames
    /\ Animate(f.session, f.hist, analyserRef, audioContextRef, frames \ {f},
               ctxOk, dt)
    /\ UNCHANGED <<selectorVars, selectedMicrophone, mounted, streamRef,
                   audioContextRef, analyserRef, isActive, pending, liveStreams,
                   openContexts, analysers, selects, attempts, failure, tornDown,
                   mapping>>

\* ------------------------------------------------------------- stop / start
\* setIsActive: React drops a state update of an unmounted component.
SetIsActive(v) == isActive' = IF mounted THEN v ELSE isActive

\* stopAudioAnalysis without its setIsActive(false).
StopKeepsStatus ==
    /\ frames' = IF animationRef # NULL
                 THEN {f \in frames : f.handle # animationRef}
                 ELSE frames
    /\ liveStreams' = IF streamRef # NULL THEN liveStreams \ {streamRef}
                      ELSE liveStreams
    /\ streamRef' = NULL
    /\ openContexts' = IF audioContextRef # NULL
                       THEN openContexts \ {audioContextRef}
                       ELSE openContexts
    /\ analysers' = {a \in analysers : a.id # audioContextRef}
    /\ audioContextRef' = NULL
    /\ analyserRef' = NULL
    /\ tornDown' = tornDown \cup {f.session : f \in frames}
                            \cup (IF streamRef # NULL THEN {streamRef} ELSE {})
    /\ UNCHANGED <<animationRef, isActive>>

StopAudioAnalysis ==
    /\ frames' = IF animationRef # NULL
                 THEN {f \in frames : f.handle # animationRef}
                 ELSE frames
    /\ liveStreams' = IF streamRef # NULL THEN liveStreams \ {streamRef}
                      ELSE liveStreams
    /\ streamRef' = NULL
    /\ openContexts' = IF audioContextRef # NULL
                       THEN openContexts \ {audioContextRef}
                       ELSE openContexts
    /\ analysers' = {a \in analysers : a.id # audioContextRef}
    /\ audioContextRef' = NULL
    /\ analyserRef' = NULL
    /\ SetIsActive(FALSE)
    /\ tornDown' = tornDown \cup {f.session : f \in frames}
                            \cup (IF streamRef # NULL THEN {streamRef} ELSE {})
    /\ UNCHANGED animationRef

stopVars ==
    <<frames, liveStreams, streamRef, openContexts, analysers, audioContextRef,
      analyserRef, isActive, tornDown, animationRef>>

\* startAudioAnalysis behind an error latch that nothing resets.
StartUnlessFailed(device) ==
    IF failure.id # NULL
    THEN UNCHANGED <<attempts, pending>>
    ELSE /\ attempts' = attempts + 1
         /\ pending' = pending \cup {[id |-> attempts + 1,
                                      device |-> device,
                                      hist |-> spectrumHistory]}

\* startAudioAnalysis up to its await: getUserMedia is called for the device.
StartAudioAnalysis(device) ==
    /\ attempts' = attempts + 1
    /\ pending' = pending \cup {[id |-> attempts + 1,
                                 device |-> device,
                                 hist |-> spectrumHistory]}

\* The effect's test: a non-empty selection starts the analysis.
EffectStarts(sel) == sel # NoDevice

\* useEffect(..., [selectedMicrophone]) when the selection goes from old to
\* new: the cleanup the previous run returned, then the effect body.
RunEffect(old, new) ==
    /\ IF EffectStarts(old) \/ ~EffectStarts(new)
       THEN StopAudioAnalysis
       ELSE UNCHANGED stopVars
    /\ IF EffectStarts(new)
       THEN StartAudioAnalysis(new)
       ELSE UNCHANGED <<attempts, pending>>

\* getUserMedia resolved for the suspended call p; the rest of the try block.
AcqResolve(p, outcome, ctxOk, dt) ==
    /\ p \in pending
    /\ pending' = pending \ {p}
    /\ liveStreams' = liveStreams \cup {p.id}
    /\ streamRef' = p.id
    /\ IF outcome = "contextThrows"
       THEN /\ SetIsActive(FALSE)
            /\ failure' = [id |-> p.id, device |-> p.device]
            /\ UNCHANGED <<openContexts, audioContextRef, analyserRef,
                           analysers, frames, spectrumHistory, canvas,
                           animationRef, rafCount, appends, clock>>
       ELSE /\ openContexts' = openContexts \cup {p.id}
            /\ audioContextRef' = p.id
            /\ analysers' = analysers \cup {[id |-> p.id,
                                             fftSize |-> FFT_SIZE,
                                             connected |-> outcome = "ok"]}
            /\ analyserRef' = p.id
            /\ IF outcome = "connectThrows"
               THEN /\ SetIsActive(FALSE)
                    /\ failure' = [id |-> p.id, device |-> p.device]
                    /\ UNCHANGED <<frames, spectrumHistory, canvas,
                                   animationRef, rafCount, appends, clock>>
               ELSE /\ SetIsActive(TRUE)
                    /\ Animate(p.id, p.hist, p.id, p.id, frames, ctxOk, dt)
                    /\ UNCHANGED failure
    /\ UNCHANGED <<selectorVars, selectedMicrophone, mounted, selects,
                   attempts, tornDown, mapping>>

\* getUserMedia rejected for the suspended call p: the catch block.
AcqReject(p) ==
    /\ p \in pending
    /\ pending' = pending \ {p}
    /\ SetIsActive(FALSE)
    /\ failure' = [id |-> p.id, device |-> p.device]
    /\ UNCHANGED <<selectorVars, selectedMicrophone, mounted, refVars,
                   spectrumHistory, liveStreams, openContexts, analysers, frames,
                   canvas, clock, selects, attempts, rafCount, appends, tornDown,
                   mapping>>

\* ------------------------------------------------------------- selector
\* The selector's setters, dropped once the tree is unmounted.
SelectorSet(mics, err) ==
    /\ microphones' = IF mounted THEN mics ELSE microphones
    /\ error' = IF mounted THEN err ELSE error
    /\ isLoading' = IF mounted THEN FALSE ELSE isLoading
    /\ selPc' = "done"

\* A catch block that also falls back to the first device.
SelectorCatchFallback(message) ==
    /\ SelectorSet(microphones, message)
    /\ selectedMicrophone' = "micA"
    /\ UNCHANGED <<mounted, controllerVars, clock, selects, mapping>>

\* The catch and finally blocks of getMicrophones.
SelectorCatch(message) ==
    /\ SelectorSet(microphones, message)
    /\ UNCHANGED <<selectedMicrophone, mounted, controllerVars, clock, selects,
                   mapping>>

\* The probing getUserMedia({audio: true}) resolved: its tracks are stopped
\* in the same task, and enumerateDevices is awaited.
SelProbeResolve ==
    /\ selPc = "getUserMedia"
    /\ selPc' = "enumerateDevices"
    /\ UNCHANGED <<microphones, isLoading, error, selectedMicrophone, mounted,
                   controllerVars, clock, selects, mapping>>

SelProbeReject ==
    /\ selPc = "getUserMedia"
    /\ SelectorCatch("Permission denied")

SelEnumResolve(mics) ==
    /\ selPc = "enumerateDevices"
    /\ SelectorSet(mics, "null")
    /\ UNCHANGED <<selectedMicrophone, mounted, controllerVars, clock, selects,
                   mapping>>

SelEnumReject ==
    /\ selPc = "enumerateDevices"
    /\ SelectorCatch("Failed to access microphones")

\* The option the <select> shows: the one whose value is selectedMicrophone,
\* or the first one when no option has that value.
Displayed ==
    IF selectedMicrophone \in Range(microphones) THEN selectedMicrophone
    ELSE IF microphones # <<>> THEN microphones[1]
    ELSE NoDevice

\* The user picks option d.  Picking the option already shown raises no
\* change event; any other calls onMicrophoneChange(d), and React re-renders
\* AudioSpectrum and runs its effect.
UserSelect(d) ==
    /\ mounted /\ ~isLoading /\ error = "null"
    /\ d \in Range(microphones)
    /\ selects < MaxSelects
    /\ selects' = selects + 1
    /\ IF d = Displayed
       THEN UNCHANGED <<selectedMicrophone, controllerVars>>
       ELSE /\ selectedMicrophone' = d
            /\ RunEffect(selectedMicrophone, d)
            /\ UNCHANGED <<spectrumHistory, canvas, rafCount, appends, failure>>
    /\ UNCHANGED <<selectorVars, mounted, clock, mapping>>

\* The tree is unmounted: the cleanup of the last effect run, if it gave one.
Unmount ==
    /\ mounted
    /\ mounted' = FALSE
    /\ IF EffectStarts(selectedMicrophone)
       THEN StopAudioAnalysis
       ELSE UNCHANGED stopVars
    /\ UNCHANGED <<selectorVars, selectedMicrophone, spectrumHistory, pending,
                   canvas, clock, selects, attempts, rafCount, appends, failure,
                   mapping>>

SelEnumerated == \E mics \in MicLists : SelEnumResolve(mics)

UserSelects == \E d \in Devices : UserSelect(d)

AcqResolved ==
    \E p \in pending, o \in Outcomes, c \in BOOLEAN, dt \in Elapsed :
        AcqResolve(p, o, c, dt)

AcqRejected == \E p \in pending : AcqReject(p)

FrameRuns == \E f \in frames, c \in BOOLEAN, dt \in Elapsed : Frame(f, c, dt)

Next ==
    \/ SelProbeResolve
    \/ SelProbeReject
    \/ SelEnumerated
    \/ SelEnumReject
    \/ UserSelects
    \/ Unmount
    \/ AcqResolved
    \/ AcqRejected
    \/ FrameRuns

Spec == Init /\ [][Next]_vars

\* ------------------------------------------------------------- coordinate mapping
\* The mapping steps of the drawing functions, applied to inputs of their
\* own.  Numbers that are fractions in the source are kept exact, as
\* [num, den] with den > 0.
appVars ==
    <<selectorVars, selectedMicrophone, mounted, controllerVars, clock, selects>>

Widths == (1..MaxWidth) \cup {CANVAS_WIDTH}
Windows == (1..MaxWindow) \cup {HISTORY_DURATION}

\* Ages tried for the window timeRange: its ends, its middle, one past it.
Ages(timeRange) ==
    {age \in {0, 1, 2, timeRange \div 2, timeRange - 1, timeRange,
              timeRange + 1} : age >= 0}

\* const pixelsPerMs = canvas.width / timeRange
PixelsPerMs(width, timeRange) == [num |-> width, den |-> timeRange]

\* The mapping without the "canvas.width -": x grows with age.
AgeToXFromLeft(age, width, timeRange) ==
    LET pixelsPerMs == PixelsPerMs(width, timeRange)
    IN [num |-> age * pixelsPerMs.num, den |-> pixelsPerMs.den]

\* const x = canvas.width - (age * pixelsPerMs)
AgeToX(age, width, timeRange) ==
    LET pixelsPerMs == PixelsPerMs(width, timeRange)
    IN [num |-> width * pixelsPerMs.den - age * pixelsPerMs.num,
        den |-> pixelsPerMs.den]

\* The x of two entries of ages age and age2 on a canvas of the given width.
MapAgeToX(age, age2, width, timeRange) ==
    /\ mapping' = [fn |-> "ageToX", width |-> width, timeRange |-> timeRange,
                   age |-> age, age2 |-> age2,
                   x |-> AgeToX(age, width, timeRange),
                   x2 |-> AgeToX(age2, width, timeRange)]
    /\ UNCHANGED appVars

MapsAgeToX ==
    \E width \in Widths, timeRange \in Windows :
        \E age \in Ages(timeRange), age2 \in Ages(timeRange) :
            MapAgeToX(age, age2, width, timeRange)

\* drawLogSpectrum, column by column.  A frequency on the logarithmic axis
\* is 10^(logMinFreq + t * logRange) = minFreq^(1-t) * nyquist^t with
\* t = pixelX / canvas.width; it is irrational in general, so it is never
\* computed: its bin index is found by comparing whole powers.
MinFreq == 20
SampleRates == {40, 48, 96, 44100}
BufferLengths == 1..MaxBufferLength
Amplitudes == {0, 255}

RECURSIVE Gcd(_, _)
Gcd(a, b) == IF b = 0 THEN a ELSE Gcd(b, a % b)

RECURSIVE Pow(_, _)
Pow(b, n) == IF n = 0 THEN 1 ELSE b * Pow(b, n - 1)

\* for (let pixelX = 0; pixelX < canvas.width; pixelX += 2)
Columns(width) == {pixelX \in 0..(width - 1) : pixelX % 2 = 0}

\* pixelX / canvas.width, in lowest terms
ColumnFraction(pixelX, width) ==
    LET g == Gcd(width, pixelX)
    IN [num |-> pixelX \div g, den |-> width \div g]

\* freq / frequencyPerBin < k + 1/2, where frequencyPerBin is
\* (sampleRate / 2) / bufferLength and freq^t.den is
\* minFreq^(t.den - t.num) * (sampleRate / 2)^t.num: both sides doubled,
\* raised to the power t.den and cleared of denominators.
BelowHalf(k, t, sampleRate, bufferLength) ==
    Pow(4 * bufferLength, t.den) * Pow(MinFreq, t.den - t.num)
        < Pow(2 * k + 1, t.den) * Pow(2, t.num) * Pow(sampleRate, t.den - t.num)

\* Math.round of a number that is not negative: the least k it is below
\* k + 1/2 of.
RECURSIVE RoundFrom(_, _, _, _)
RoundFrom(k, t, sampleRate, bufferLength) ==
    IF BelowHalf(k, t, sampleRate, bufferLength)
    THEN k
    ELSE RoundFrom(k + 1, t, sampleRate, bufferLength)

\* const binIndex = Math.round(freq / frequencyPerBin)
BinIndex(pixelX, width, sampleRate, bufferLength) ==
    RoundFrom(0, ColumnFraction(pixelX, width), sampleRate, bufferLength)

\* The guard with <= for <.
BinInRangeInclusive(binIndex, bufferLength) ==
    binIndex >= 0 /\ binIndex <= bufferLength

\* if (binIndex >= 0 && binIndex < bufferLength)
BinInRange(binIndex, bufferLength) ==
    binIndex >= 0 /\ binIndex < bufferLength

\* dataArray[binIndex]: the element (the source counts from 0), or undefined
\* past the end of the array.
ReadAmplitude(dataArray, binIndex) ==
    IF binIndex + 1 \in DOMAIN dataArray
    THEN [defined |-> TRUE, value |-> dataArray[binIndex + 1]]
    ELSE [defined |-> FALSE]

\* The body of the loop for one column: what it read and whether it drew.
Column(pixelX, width, sampleRate, dataArray, bufferLength) ==
    LET binIndex == BinIndex(pixelX, width, sampleRate, bufferLength)
    IN IF BinInRange(binIndex, bufferLength)
       THEN [pixelX |-> pixelX, binIndex |-> binIndex, read |-> {binIndex},
             amplitude |-> ReadAmplitude(dataArray, binIndex), drawn |-> TRUE]
       ELSE [pixelX |-> pixelX, binIndex |-> binIndex, read |-> {},
             amplitude |-> [defined |-> FALSE], drawn |-> FALSE]

\* drawLogSpectrum on a canvas of the given width, for a context of the
\* given sample rate and a snapshot of bufferLength bins.
MapLogSpectrum(width, sampleRate, dataArray, bufferLength) ==
    /\ mapping' = [fn |-> "logSpectrum", width |-> width,
                   sampleRate |-> sampleRate, bufferLength |-> bufferLength,
                   columns |-> {Column(pixelX, width, sampleRate, dataArray,
                                       bufferLength) :
                                    pixelX \in Columns(width)}]
    /\ UNCHANGED appVars

MapsLogSpectrum ==
    \E width \in 1..MaxWidth, sampleRate \in SampleRates :
        \E bufferLength \in BufferLengths, amplitude \in Amplitudes :
            MapLogSpectrum(width, sampleRate,
                           [i \in 1..bufferLength |-> amplitude], bufferLength)

MapNext ==
    \/ MapsAgeToX
    \/ MapsLogSpectrum

MapSpec == Init /\ [][MapNext]_vars

\* ------------------------------------------------------------- claims
\* A step in which stopAudioAnalysis runs for a selection that was made: the
\* selection changes to another device, or the tree is unmounted.
TeardownStep ==
    /\ selectedMicrophone # NoDevice
    /\ \/ selectedMicrophone' # selectedMicrophone
       \/ mounted /\ ~mounted'

Handles == <<streamRef, audioContextRef, analyserRef>>
NoHandles == <<NULL, NULL, NULL>>

\* C1: in every reachable state at most one acquired stream has unstopped
\* tracks and at most one audio context is open.
AtMostOneSession ==
    /\ Cardinality(liveStreams) <= 1
    /\ Cardinality(openContexts) <= 1

\* C2, first half: a teardown cancels the frame callback whose handle is
\* held, stops the held stream, closes the held context and clears the three
\* handles.
TeardownReleases ==
    [][TeardownStep =>
         /\ Handles' = NoHandles
         /\ streamRef \notin liveStreams'
         /\ audioContextRef \notin openContexts'
         /\ \A f \in frames' : f.handle # animationRef]_vars

\* C2, second half: a frame callback of a session that was torn down never
\* samples and appends again.
NoFrameAfterTeardown ==
    [][\A f \in frames :
         (f.session \in tornDown /\ f \notin frames') => appends' = appends]_vars

\* C2: the teardown releases everything and no frame callback of the
\* torn-down session samples, appends or draws afterwards.
TeardownIsFinal == TeardownReleases /\ NoFrameAfterTeardown

\* C3: once the component is torn down the controller holds no stream, no
\* audio context and no sampler (so no frame can sample) and its status is
\* inactive, whether or not an acquisition was pending at the teardown.
IdleHoldsNothing ==
    ~mounted => (Handles = NoHandles /\ liveStreams = {} /\ openContexts = {}
                 /\ ~isActive)

\* C4: when startAudioAnalysis fails, what it acquired is released, no handle
\* is held and the status is inactive.
FailureReleases ==
    [][failure' # failure =>
         /\ failure'.id \notin liveStreams'
         /\ failure'.id \notin openContexts'
         /\ Handles' = NoHandles
         /\ ~isActive']_vars

\* C5: right after an append every retained snapshot is at most
\* HISTORY_DURATION older than the appended one, and the append keeps exactly
\* the earlier snapshots whose age is at most HISTORY_DURATION (age
\* HISTORY_DURATION stays, HISTORY_DURATION + 1 goes).
RetentionBound ==
    \A i \in 1..Len(spectrumHistory) :
        spectrumHistory[Len(spectrumHistory)].timestamp
            - spectrumHistory[i].timestamp <= HISTORY_DURATION

EvictionExact ==
    appends' = appends + 1 =>
        \A data \in Range(spectrumHistory) :
            data \in Range(spectrumHistory')
                <=> clock' - data.timestamp <= HISTORY_DURATION

HistoryRetention == []RetentionBound /\ [][EvictionExact]_vars

\* C5 witness: a snapshot exactly HISTORY_DURATION older than the last append
\* is still in the history.
RetainedAtWindowEdge ==
    \E i \in 1..Len(spectrumHistory) :
        spectrumHistory[Len(spectrumHistory)].timestamp
            - spectrumHistory[i].timestamp = HISTORY_DURATION

\* C6: the history is sorted ascending by timestamp and is no longer than the
\* number of appends made.
HistoryOrdered ==
    /\ \A i \in 1..Len(spectrumHistory) : \A j \in i..Len(spectrumHistory) :
           spectrumHistory[i].timestamp <= spectrumHistory[j].timestamp
    /\ Len(spectrumHistory) <= appends

\* C6 witness: several snapshots are retained, taken from two samplers, after
\* an eviction.
OrderedAfterEviction ==
    /\ Len(spectrumHistory) >= 2
    /\ Len(spectrumHistory) < appends
    /\ \E i, j \in 1..Len(spectrumHistory) :
           spectrumHistory[i].frequencies # spectrumHistory[j].frequencies

\* C7: every snapshot that was in the history when the last frame rendered is
\* among the entries the spectrogram step of that frame went over.
SpectrogramUsesFullHistory ==
    appends > 0 =>
        \A i \in 1..(Len(spectrumHistory) - 1) :
            spectrumHistory[i] \in Range(canvas.iterated)

\* C8: a frame of a live session that finds the drawing surface not ready
\* samples, appends and draws nothing and still requests the next frame.
SkippedFrame ==
    /\ isActive /\ mounted /\ analyserRef # NULL
    /\ \E f \in frames, dt \in Elapsed : Frame(f, FALSE, dt)

SkipKeepsLoop ==
    [][SkippedFrame =>
         /\ appends' = appends
         /\ canvas' = canvas
         /\ rafCount' = rafCount + 1
         /\ \E g \in frames' : g.handle = rafCount']_vars

\* C9 as stated: after a failure, with the status inactive, the user picking
\* any device, the one that failed included, starts a new attempt.
RetryOnAnySelect ==
    [][(failure.id # NULL /\ ~isActive /\ \E d \in Devices : UserSelect(d))
         => attempts' = attempts + 1]_vars

\* C9 amended: after a failure, with the status inactive, the user picking a
\* device other than the selected one starts a new attempt for that device.
RetryOnOtherSelect ==
    [][\A d \in Devices :
         (failure.id # NULL /\ ~isActive /\ d # selectedMicrophone
             /\ UserSelect(d))
         => /\ attempts' = attempts + 1
            /\ [id |-> attempts', device |-> d, hist |-> spectrumHistory]
                   \in pending']_vars

\* C9 witness: an attempt made after a failure is under way.
RetryPending ==
    /\ failure.id # NULL
    /\ ~isActive
    /\ \E p \in pending : p.id > failure.id /\ p.device = failure.device

\* C10: the selector's failure path (it sets its error message) changes no
\* stream, context, sampler, frame handle, history or status of the
\* controller and leaves the selection as it is.
EnumerationFailureIsLocal ==
    [][(error = "null" /\ error' # "null")
         => UNCHANGED <<controllerVars, selectedMicrophone>>]_vars

\* C10 witness: the selector reports a failure.
EnumerationFailed == error # "null" /\ ~isLoading

CurrentSessionLive ==
    /\ mounted /\ isActive /\ attempts # NULL
    /\ streamRef = attempts /\ streamRef \in liveStreams
    /\ analyserRef = attempts

\* C12: a frame samples, appends, draws and requests the next frame only
\* while the session of the currently selected device is live; in Idle and
\* in Error no frame does.
FrameLoopOnlyWhenActive ==
    [][(appends' = appends + 1 \/ rafCount' = rafCount + 1)
         => /\ appends' = appends + 1 /\ rafCount' = rafCount + 1
            /\ CurrentSessionLive']_vars

\* C13: once the acquisition for a new selection has begun, nothing acquired
\* for an earlier selection is held or becomes held: every live stream, open
\* context and handle is that of the latest startAudioAnalysis call.
PreviousSessionReleased ==
    \A id \in liveStreams \cup openContexts
                \cup ({streamRef, audioContextRef, analyserRef} \ {NULL}) :
        id = attempts

\* The sampler held is one with analysis window 2048 that a stream source is
\* connected to.
SamplerConnected ==
    \E a \in analysers :
        a.id = analyserRef /\ a.fftSize = 2048 /\ a.connected

\* C14, first half: the status becomes active only with the stream acquired,
\* the context created and the sampler created and connected.
ActiveAfterConnect ==
    [][(isActive' /\ ~isActive) =>
         /\ streamRef' \in liveStreams'
         /\ audioContextRef' \in openContexts'
         /\ SamplerConnected']_vars

\* C14, second half: no frame samples from a sampler that is not connected.
SamplesConnectedOnly ==
    [][appends' = appends + 1 => SamplerConnected']_vars

\* C14: entering Active goes stream, context, sampler with window 2048,
\* connection, and only then status and first frame; no frame samples from a
\* sampler that is not yet connected.
EnteringActiveInOrder == ActiveAfterConnect /\ SamplesConnectedOnly

\* C15: the history changes only in a step that runs a frame, and there by
\* exactly one append (the snapshot taken at the frame's time, last) after
\* which the earlier snapshots older than HISTORY_DURATION are gone; starting,
\* stopping, switching devices and failing leave it as it is.
OneAppendThenEviction ==
    LET n == Len(spectrumHistory')
        kept(data) == clock' - data.timestamp <= HISTORY_DURATION
    IN /\ n >= 1
       /\ spectrumHistory'[n].timestamp = clock'
       /\ SubSeq(spectrumHistory', 1, n - 1) = SelectSeq(spectrumHistory, kept)

HistoryOnlyByFrames ==
    [][/\ spectrumHistory' # spectrumHistory => appends' = appends + 1
       /\ appends' = appends + 1 => OneAppendThenEviction
       /\ (TeardownStep \/ failure' # failure \/ attempts' # attempts)
            => spectrumHistory' = spectrumHistory]_vars

\* C15 witness: a session was stopped and the history still holds what its
\* frames appended.
HistoryKeptAfterStop ==
    /\ tornDown # {}
    /\ streamRef = NULL /\ ~isActive
    /\ Len(spectrumHistory) >= 2

\* C16: every cell the spectrogram drew in the last frame belongs to an entry
\* no older than HISTORY_DURATION at that frame's time, and its x lies in
\* [0, canvas width], whatever the history the drawing closure holds.
CellAge(data) == clock - data.timestamp

SpectrogramWithinWindow ==
    \A i \in 1..Len(canvas.cells) :
        LET age == CellAge(canvas.cells[i])
            x == AgeToX(age, CANVAS_WIDTH, HISTORY_DURATION)
        IN /\ age <= HISTORY_DURATION
           /\ x.num >= 0
           /\ x.num <= CANVAS_WIDTH * x.den

\* C16 witness: the last frame visited an entry older than the window and
\* drew a younger one, but not the old one.
SpectrogramSkippedOld ==
    /\ \E i \in 1..Len(canvas.iterated) :
           CellAge(canvas.iterated[i]) > HISTORY_DURATION
    /\ Len(canvas.cells) >= 1
    /\ Len(canvas.cells) < Len(canvas.iterated)

\* C17: in every column of the instantaneous spectrum the bin index is
\* round(freq / frequencyPerBin); a bar is drawn and an amplitude read exactly
\* when that index is in [0, bufferLength), and no element outside the
\* snapshot is read.
IsRounded(c) ==
    LET t == ColumnFraction(c.pixelX, mapping.width)
    IN /\ BelowHalf(c.binIndex, t, mapping.sampleRate, mapping.bufferLength)
       /\ \/ c.binIndex = 0
          \/ ~BelowHalf(c.binIndex - 1, t, mapping.sampleRate,
                        mapping.bufferLength)

BarsOnlyInRange ==
    mapping.fn = "logSpectrum" =>
        \A c \in mapping.columns :
            /\ IsRounded(c)
            /\ c.drawn <=> c.binIndex \in 0..(mapping.bufferLength - 1)
            /\ c.read = (IF c.drawn THEN {c.binIndex} ELSE {})
            /\ c.read \subseteq 0..(mapping.bufferLength - 1)
            /\ c.drawn => c.amplitude.defined

\* C17 witness: one column drew the bar of a bin of the snapshot, another
\* had an index past the last bin and drew nothing.
BarSkippedPastLastBin ==
    /\ mapping.fn = "logSpectrum"
    /\ \E c \in mapping.columns :
           c.drawn /\ c.amplitude.defined /\ c.amplitude.value = 255
    /\ \E c \in mapping.columns :
           c.binIndex >= mapping.bufferLength /\ ~c.drawn /\ c.read = {}

\* C18: at most one frame callback is pending at any time, so no two
\* self-rescheduling animate chains run at once.
AtMostOneFramePending == Cardinality(frames) <= 1

\* C19: whenever the status shown is active, the controller holds a stream,
\* an audio context and a sampler: none of the three refs is empty.
ActiveHoldsHandles ==
    isActive =>
        /\ streamRef # NULL
        /\ audioContextRef # NULL
        /\ analyserRef # NULL

\* C19 witness: the status is active after two acquisitions completed for
\* overlapping selections.
ActiveAfterOverlap ==
    /\ mounted /\ isActive
    /\ Cardinality(liveStreams) = 2
    /\ failure = NoFailure

====
